---- MODULE Spec2Model ----
(***************************************************************************)
(* Model of pyrpl/hardware_modules/pid.py: the register parameters of the  *)
(* Pid module (IValAttribute, FloatRegister and BoolRegister descriptors)  *)
(* and Pid.transfer_function.                                              *)
(*                                                                         *)
(* Engineering values are rationals n / Sub in units of one LSB of the     *)
(* register they are written to, so that a value v [volts] of ival is the  *)
(* integer v * IVAL_NORM * Sub.  Bus words are non-negative integers.      *)
(***************************************************************************)
EXTENDS Integers, Sequences, FiniteSets

VARIABLES reg,      \* register space of the module: address -> bus word
          last,     \* the operation performed by the last step
          bus,      \* bus transactions performed by the last step
          setv,     \* <<v>> after the set attempt ival = v, else <<>> (ghost)
          via,      \* address -> parameter that last wrote it (ghost)
          epoch,    \* number of gain updates made so far (ghost)
          tfpc,     \* position of the running transfer_function call
          tf        \* locals of the running transfer_function call

vars == <<reg, last, bus, setv, via, epoch, tfpc, tf>>

\* ------------------------------------------------------------------ bounds
\* values are given with a resolution of 1/Sub LSB
Sub == 4
\* number of gain updates the concurrent writer makes
MaxEpoch == 2
\* longest input-filter configuration
MaxStages == 4

\* --------------------------------------------------------------- constants
IVAL_ADDR == 256       \* 0x100
IVAL_BITS == 16
IVAL_NORM == 8192      \* 2 ** 13
\* min= and max= of Pid.ival [volts]; IValMinWide is a lower bound set too low
IValMinWide == -4 - 1
IValMin == -4
IValMax == 4
DELAY == 3             \* Pid._delay
CYCLE_NS == 8          \* 8e-9 s

None == "none"

Params == {"setpoint", "min_voltage", "max_voltage", "p", "i", "d",
           "normalization_i", "normalization_inputoffset"}

\* address of each register descriptor of Pid; AddrShifted has the two
\* normalization descriptors swapped between 0x10C and 0x110
AddrShifted(param) ==
    CASE param = "ival"                      -> 256
      [] param = "setpoint"                  -> 260
      [] param = "p"                         -> 264
      [] param = "i"                         -> 268
      [] param = "d"                         -> 272
      [] param = "min_voltage"               -> 292
      [] param = "max_voltage"               -> 296
      [] param = "normalization_on"          -> 304
      [] param = "normalization_i"           -> 272
      [] param = "normalization_inputoffset" -> 268

Addr(param) ==
    CASE param = "ival"                      -> 256   \* 0x100
      [] param = "setpoint"                  -> 260   \* 0x104
      [] param = "p"                         -> 264   \* 0x108
      [] param = "i"                         -> 268   \* 0x10C
      [] param = "d"                         -> 272   \* 0x110
      [] param = "min_voltage"               -> 292   \* 0x124
      [] param = "max_voltage"               -> 296   \* 0x128
      [] param = "normalization_on"          -> 304   \* 0x130
      [] param = "normalization_i"           -> 268   \* 0x10C
      [] param = "normalization_inputoffset" -> 272   \* 0x110

\* bits= of each FloatRegister (_GAINBITS = 24, _DSR = 10)
Bits(param) ==
    CASE param \in {"setpoint", "min_voltage", "max_voltage"} -> 14
      [] param \in {"p", "i", "d", "normalization_i"}         -> 24
      [] param = "normalization_inputoffset"                  -> 14 + 10

\* invert= of each FloatRegister
Invert(param) == param = "d"

Addrs == {256, 260, 264, 268, 272, 292, 296, 304}

\* ------------------------------------------------------------------- codec
\* round(n / Sub) to the nearest integer, ties to even (Python 3 round)
Round(n) ==
    LET q == n \div Sub
        r == n % Sub
    IN  IF 2 * r < Sub THEN q
        ELSE IF 2 * r > Sub THEN q + 1
        ELSE IF q % 2 = 0 THEN q ELSE q + 1

\* the two's-complement range of a register of the given width
Fits(v, bitlength) == -(2 ^ (bitlength - 1)) <= v /\ v <= 2 ^ (bitlength - 1) - 1

\* signed integer -> bus word (two's complement in bitlength bits)
from_pyint(v, bitlength) == v % (2 ^ bitlength)

\* bus word -> signed integer
to_pyint(w, bitlength) ==
    LET m == w % (2 ^ bitlength)
    IN  IF m >= 2 ^ (bitlength - 1) THEN m - 2 ^ bitlength ELSE m

\* --------------------------------------------------------------------- bus
read(a) == [kind |-> "read", addr |-> a]
write(a, w) == [kind |-> "write", addr |-> a, word |-> w]

Op(op, param, value, outcome, result) ==
    [op |-> op, param |-> param, value |-> value,
     outcome |-> outcome, result |-> result]

\* locals of transfer_function before the call: the frequency sample and
\* extradelay, the gains read and the update instant each reflects, the
\* input filter and the stages done, module_delay, delay [ns], the divisors
\* applied to tf, whether the sample of tf is finite, and how the call ended
NoTf == [f |-> 0, extradelay |-> 0, i |-> 0, p |-> 0, iepoch |-> 0,
         pepoch |-> 0, filter |-> <<>>, k |-> 0, module_delay |-> 0,
         delay |-> 0, divs |-> <<>>, cls |-> "finite", outcome |-> None,
         reported |-> {}, reads |-> 0, writes |-> 0]

Init ==
    /\ reg = [a \in Addrs |-> 0]
    /\ last = Op("init", None, 0, "ok", 0)
    /\ bus = <<>>
    /\ setv = <<>>
    /\ via = [a \in Addrs |-> None]
    /\ epoch = 0
    /\ tfpc = "idle"
    /\ tf = NoTf

\* ---------------------------------------------------------- IValAttribute
\* values tried on ival: around both ends of the declared range, around the
\* ends of the 16-bit range, ties and sub-LSB values around zero
V(volts) == volts * IVAL_NORM * Sub
IValInputs ==
    {V(-5), V(-4) - 1, V(-4), V(-4) + 1, -Sub - 1, -1, 0, 2, Sub + 2,
     V(4) - Sub - 1, V(4) - Sub, V(4) - 2, V(4) - 1, V(4), V(4) + 1, V(5)}

\* words the hardware leaves in the accumulator register
HwWords == {0, 1, 32767, 32768, 65535}

\* IValAttribute.get_value: the decoded value, in units of 1/Sub LSB
\* (get_value_wide decodes with a bitlength wider than the register)
get_value_wide(regs) == to_pyint(regs[IVAL_ADDR], 24) * Sub
get_value(regs) == to_pyint(regs[IVAL_ADDR], IVAL_BITS) * Sub

\* IValAttribute.set_value: the raw integer and the width it is encoded in
\* (set_value_wide encodes with a bitlength wider than the register)
set_value_wide(value) == [raw |-> Round(value), bitlength |-> 24]
set_value(value) == [raw |-> Round(value), bitlength |-> IVAL_BITS]

\* the bounds check of the attribute: min <= value <= max
InDeclaredRange(value) == V(IValMin) <= value /\ value <= V(IValMax)

\* pid.ival = value: the bounds check, then set_value, whose encoding fails
\* on a raw integer that does not fit the register
SetIVal(value) ==
    /\ tfpc = "idle"
    /\ setv' = <<value>>
    /\ IF ~InDeclaredRange(value)
          \/ ~Fits(set_value(value).raw, set_value(value).bitlength)
       THEN /\ last' = Op("set", "ival", value, "RangeError", 0)
            /\ bus' = <<>>
            /\ reg' = reg
       ELSE LET w == from_pyint(set_value(value).raw, set_value(value).bitlength)
            IN  /\ last' = Op("set", "ival", value, "ok", 0)
                /\ bus' = <<write(IVAL_ADDR, w)>>
                /\ reg' = [reg EXCEPT ![IVAL_ADDR] = w]
    /\ via' = IF last'.outcome = "ok" THEN [via EXCEPT ![IVAL_ADDR] = "ival"]
              ELSE via
    /\ UNCHANGED <<epoch, tfpc, tf>>

\* pid.ival
GetIVal ==
    /\ tfpc = "idle"
    /\ last' = Op("get", "ival", 0, "ok", get_value(reg))
    /\ bus' = <<read(IVAL_ADDR)>>
    /\ UNCHANGED <<reg, setv, via, epoch, tfpc, tf>>

\* the running integrator changes the accumulator
HwTick(w) ==
    /\ tfpc = "idle"
    /\ reg[IVAL_ADDR] # w
    /\ reg' = [reg EXCEPT ![IVAL_ADDR] = w]
    /\ last' = Op("hw", "ival", 0, "ok", 0)
    /\ bus' = <<>>
    /\ setv' = <<>>
    /\ via' = [via EXCEPT ![IVAL_ADDR] = None]
    /\ UNCHANGED <<epoch, tfpc, tf>>

NextIVal ==
    \/ \E value \in IValInputs : SetIVal(value)
    \/ GetIVal
    \/ \E w \in HwWords : HwTick(w)

SpecIVal == Init /\ [][NextIVal]_vars

\* ------------------------------------------- FloatRegister, BoolRegister
\* value * norm of the values tried on a FloatRegister, in units of 1/Sub
RegInputs == {-Sub - 1, 8192 * Sub}

\* the raw integer of a value: rounded, negated first for an inverted register
encode(x, param) == Round(IF Invert(param) THEN -x ELSE x)

\* the value of a raw integer, in units of 1/Sub LSB
decode(raw, param) == (IF Invert(param) THEN -raw ELSE raw) * Sub

\* pid.<param> = value, for a FloatRegister
Set(param, x) ==
    /\ tfpc = "idle"
    /\ IF ~Fits(encode(x, param), Bits(param))
       THEN /\ last' = Op("set", param, x, "RangeError", 0)
            /\ bus' = <<>>
            /\ UNCHANGED <<reg, via>>
       ELSE LET w == from_pyint(encode(x, param), Bits(param))
            IN  /\ last' = Op("set", param, x, "ok", 0)
                /\ bus' = <<write(Addr(param), w)>>
                /\ reg' = [reg EXCEPT ![Addr(param)] = w]
                /\ via' = [via EXCEPT ![Addr(param)] = param]
    /\ UNCHANGED <<setv, epoch, tfpc, tf>>

\* pid.<param>, for a FloatRegister
Get(param) ==
    /\ tfpc = "idle"
    /\ last' = Op("get", param, 0, "ok",
                  decode(to_pyint(reg[Addr(param)], Bits(param)), param))
    /\ bus' = <<read(Addr(param))>>
    /\ UNCHANGED <<reg, setv, via, epoch, tfpc, tf>>

\* pid.normalization_on = b: bit 0 of the register
SetBool(b) ==
    /\ tfpc = "idle"
    /\ last' = Op("set", "normalization_on", b, "ok", 0)
    /\ bus' = <<write(Addr("normalization_on"), b)>>
    /\ reg' = [reg EXCEPT ![Addr("normalization_on")] = b]
    /\ via' = [via EXCEPT ![Addr("normalization_on")] = "normalization_on"]
    /\ UNCHANGED <<setv, epoch, tfpc, tf>>

\* pid.normalization_on
GetBool ==
    /\ tfpc = "idle"
    /\ last' = Op("get", "normalization_on", 0, "ok",
                  reg[Addr("normalization_on")] % 2)
    /\ bus' = <<read(Addr("normalization_on"))>>
    /\ UNCHANGED <<reg, setv, via, epoch, tfpc, tf>>

NextRegs ==
    \/ \E param \in Params, x \in RegInputs : Set(param, x)
    \/ \E param \in Params : Get(param)
    \/ \E b \in {0, 1} : SetBool(b)
    \/ GetBool
    \/ \E value \in {-Sub - 1} : SetIVal(value)
    \/ GetIVal

SpecRegs == Init /\ [][NextRegs]_vars

\* ------------------------------------------------------ transfer_function
\* frequency samples [Hz], extradelay [ns] and filter coefficients [Hz]
Freqs == {0, 1000}
ExtraDelays == {0, 200}
Coeffs == {-1000, 0, 1000}

RECURSIVE Configs(_)
Configs(n) ==
    IF n = 0 THEN {<<>>}
    ELSE Configs(n - 1) \cup
         {Append(c, x) : c \in {c \in Configs(n - 1) : Len(c) = n - 1},
                         x \in Coeffs}

TfOp == Op("transfer_function", None, 0, "ok", 0)

\* tf = pid.transfer_function(frequencies, extradelay): entry
TfCall(f, extradelay) ==
    /\ tfpc = "idle"
    /\ tf' = [NoTf EXCEPT !.f = f, !.extradelay = extradelay,
                          !.module_delay = DELAY]
    /\ tfpc' = "integral"
    /\ last' = TfOp
    /\ bus' = <<>>
    /\ UNCHANGED <<reg, setv, via, epoch>>

\* tf = self.i / (frequencies * 1j) * np.exp(...): a division by the complex
\* zero leaves inf/nan components in the sample, whatever self.i is
Integral(t, regs, now) ==
    [t EXCEPT !.i = decode(to_pyint(regs[Addr("i")], Bits("i")), "i"),
              !.iepoch = now,
              !.reads = @ + 1,
              !.cls = IF t.f = 0 THEN "nonfinite" ELSE "finite"]

TfIntegral ==
    /\ tfpc = "integral"
    /\ tf' = Integral(tf, reg, epoch)
    /\ tfpc' = "proportional"
    /\ last' = TfOp
    /\ bus' = <<read(Addr("i"))>>
    /\ UNCHANGED <<reg, setv, via, epoch>>

\* tf += self.p
Proportional(t, regs, now) ==
    [t EXCEPT !.p = decode(to_pyint(regs[Addr("p")], Bits("p")), "p"),
              !.pepoch = now,
              !.reads = @ + 1]

TfProportional ==
    /\ tfpc = "proportional"
    /\ tf' = Proportional(tf, reg, epoch)
    /\ tfpc' = "filter"
    /\ last' = TfOp
    /\ bus' = <<read(Addr("p"))>>
    /\ UNCHANGED <<reg, setv, via, epoch>>

\* for f in self.inputfilter: the configuration the loop runs over
TfInputFilter(cfg) ==
    /\ tfpc = "filter"
    /\ tf' = [tf EXCEPT !.filter = cfg, !.k = 0]
    /\ tfpc' = "stage"
    /\ last' = TfOp
    /\ bus' = <<>>
    /\ UNCHANGED <<reg, setv, via, epoch>>

\* one iteration of the loop, on coefficient c (StageLowpassOnly takes a
\* coefficient of 0 for a lowpass instead of skipping it)
StageLowpassOnly(t, c) ==
    IF c >= 0
    THEN [t EXCEPT !.k = @ + 1, !.divs = Append(@, c),
                   !.module_delay = @ + 2]
    ELSE [t EXCEPT !.k = @ + 1, !.divs = Append(@, c),
                   !.module_delay = @ + 1,
                   !.cls = IF t.f = 0 THEN "nonfinite" ELSE @]

Stage(t, c) ==
    IF c = 0
    THEN [t EXCEPT !.k = @ + 1]
    ELSE IF c > 0
    THEN [t EXCEPT !.k = @ + 1, !.divs = Append(@, c),
                   !.module_delay = @ + 2]
    ELSE [t EXCEPT !.k = @ + 1, !.divs = Append(@, c),
                   !.module_delay = @ + 1,
                   !.cls = IF t.f = 0 THEN "nonfinite" ELSE @]

TfStage ==
    /\ tfpc = "stage"
    /\ tf.k < Len(tf.filter)
    /\ tf' = Stage(tf, tf.filter[tf.k + 1])
    /\ last' = TfOp
    /\ bus' = <<>>
    /\ UNCHANGED <<reg, setv, via, epoch, tfpc>>

\* delay = module_delay * 8e-9 / self._frequency_correction + extradelay,
\* in ns for a frequency correction of 1; tf *= np.exp(...); return tf
TfDelay ==
    /\ tfpc = "stage"
    /\ tf.k = Len(tf.filter)
    /\ tf' = [tf EXCEPT !.delay = tf.module_delay * CYCLE_NS + tf.extradelay,
                        !.outcome = "returned"]
    /\ tfpc' = "done"
    /\ last' = TfOp
    /\ bus' = <<>>
    /\ UNCHANGED <<reg, setv, via, epoch>>

\* the caller takes the result
TfReturn ==
    /\ tfpc = "done"
    /\ tf' = NoTf
    /\ tfpc' = "idle"
    /\ last' = TfOp
    /\ bus' = <<>>
    /\ UNCHANGED <<reg, setv, via, epoch>>

\* a concurrent writer changes p and i together, in one bus transaction;
\* last and bus describe the operations of this host and are left alone
UpdateGains ==
    /\ epoch < MaxEpoch
    /\ epoch' = epoch + 1
    /\ reg' = [reg EXCEPT ![Addr("p")] = from_pyint(4096 * epoch', Bits("p")),
                          ![Addr("i")] = from_pyint(epoch', Bits("i"))]
    /\ via' = [via EXCEPT ![Addr("p")] = "p", ![Addr("i")] = "i"]
    /\ UNCHANGED <<last, bus, setv, tfpc, tf>>

NextTf ==
    \/ \E f \in Freqs, extradelay \in ExtraDelays : TfCall(f, extradelay)
    \/ TfIntegral
    \/ TfProportional
    \/ \E cfg \in Configs(MaxStages) : TfInputFilter(cfg)
    \/ TfStage
    \/ TfDelay
    \/ TfReturn
    \/ UpdateGains
    \/ \E x \in {-Sub - 1, 0} : Set("d", x)

SpecTf == Init /\ [][NextTf]_vars

\* ================================================================== claims
LSB == Sub
Abs(n) == IF n < 0 THEN -n ELSE n

\* C1: for every v inside the declared range [-4, 4] of ival, set(v)
\* followed by get() with no intervening change of the register returns a
\* value within one LSB of v, the upper bound v = 4 included.
C1_SetGetWithinOneLSB ==
    (/\ last.op = "get" /\ last.param = "ival"
     /\ setv # <<>>
     /\ -4 * 8192 * Sub <= setv[1] /\ setv[1] <= 4 * 8192 * Sub)
    => Abs(last.result - setv[1]) <= LSB

C4_OneBusTransaction ==
    /\ (last.op = "get" /\ last.param = "ival")
       => /\ bus = <<[kind |-> "read", addr |-> 256]>>
          /\ last.result = to_pyint(reg[256], 16) * Sub
    /\ (last.op = "set" /\ last.param = "ival" /\ last.outcome = "ok")
       => /\ bus = <<[kind |-> "write", addr |-> 256, word |-> reg[256]]>>
          /\ to_pyint(reg[256], 16) = Round(last.value)

C4_Witness ==
    /\ last.op = "get" /\ last.param = "ival"
    /\ setv = <<>> /\ reg[256] = 65535
    /\ last.result = -Sub

\* C5: the p and the i that enter the result of one transfer_function call
\* come from the same update instant.
C5_GainsFromOneUpdate ==
    tfpc = "done" => tf.iepoch = tf.pepoch

\* C6: a transfer_function call performs no bus read and no bus write.
C6_NoHardwareIO ==
    tfpc = "done" => (tf.reads = 0 /\ tf.writes = 0)

NonZero(c) == c # 0

\* C7: the delay in cycles used by transfer_function is 3, plus 2 for each
\* coefficient > 0, plus 1 for each coefficient < 0; a coefficient of 0
\* changes neither the gain nor the delay, so an all-zero configuration
\* leaves the gain undivided and the delay at 3 cycles; and the running
\* delay never decreases from one stage to the next.
C7_FilterDelay ==
    /\ [](tfpc = "done" =>
           LET n == Len(tf.filter)
               lp == Cardinality({k \in 1..n : tf.filter[k] > 0})
               hp == Cardinality({k \in 1..n : tf.filter[k] < 0})
           IN  /\ tf.module_delay = 3 + 2 * lp + hp
               /\ tf.delay = (3 + 2 * lp + hp) * 8 + tf.extradelay
               /\ tf.divs = SelectSeq(tf.filter, NonZero)
               /\ ((lp = 0 /\ hp = 0)
                   => (tf.divs = <<>> /\ tf.module_delay = 3)))
    /\ [][(tfpc = "stage" /\ tfpc' = "stage" /\ tf' # tf)
           => (tf'.module_delay >= tf.module_delay /\ tf'.k = tf.k + 1)]_vars

C7_Witness ==
    /\ tfpc = "done"
    /\ tf.filter = <<1000, 0, -1000, 0>>
    /\ tf.module_delay = 6 /\ tf.divs = <<1000, -1000>>

\* C8: a frequency sample of 0 with a nonzero integral gain or an active
\* high-pass stage ends as a reported singularity.
C8_SingularityReported ==
    (/\ tfpc = "done" /\ tf.f = 0
     /\ (tf.i # 0 \/ \E k \in 1..Len(tf.filter) : tf.filter[k] < 0))
    => (tf.outcome = "returned" /\ "SingularityCondition" \in tf.reported)

\* C9: transfer_function called while the derivative gain d is nonzero
\* raises or reports UnsupportedFeatureError.
C9_DerivativeReported ==
    (tfpc = "done" /\ to_pyint(reg[272], 24) # 0)
    => (\/ tf.outcome = "UnsupportedFeatureError"
        \/ "UnsupportedFeatureError" \in tf.reported)

\* both parameters of a pair read and write the one register of the pair
C10_SameRegister ==
    /\ (last.op \in {"get", "set"} /\ last.outcome = "ok"
        /\ last.param \in {"i", "normalization_i"})
       => (Len(bus) = 1 /\ bus[1].addr = 268)
    /\ (last.op \in {"get", "set"} /\ last.outcome = "ok"
        /\ last.param \in {"d", "normalization_inputoffset"})
       => (Len(bus) = 1 /\ bus[1].addr = 272)
    /\ (last.op = "get" /\ last.param \in {"i", "normalization_i"})
       => last.result = to_pyint(reg[268], 24) * Sub
    /\ (last.op = "get" /\ last.param = "normalization_inputoffset")
       => last.result = to_pyint(reg[272], 24) * Sub
    /\ (last.op = "get" /\ last.param = "d")
       => last.result = -to_pyint(reg[272], 24) * Sub

\* a set changes at most the register at the address of its parameter
C10_SetFrame ==
    last'.op = "set" =>
        /\ Cardinality({a \in Addrs : reg'[a] # reg[a]}) <= 1
        /\ (last'.param \in {"i", "normalization_i"}
            => \A a \in Addrs \ {268} : reg'[a] = reg[a])
        /\ (last'.param \in {"d", "normalization_inputoffset"}
            => \A a \in Addrs \ {272} : reg'[a] = reg[a])
        /\ (last'.param \notin {"i", "normalization_i", "d",
                                 "normalization_inputoffset"}
            => (reg'[268] = reg[268] /\ reg'[272] = reg[272]))

\* C10: i and normalization_i are both bound to 0x10C, d and
\* normalization_inputoffset to 0x110: a get or a set through either of a
\* pair goes to that one register, so that a get through one returns the
\* content a set through the other left; and a set changes no register but
\* the one at its own address.
C10_AliasingAndFrame ==
    /\ [](C10_SameRegister)
    /\ [][C10_SetFrame]_vars

C10_Witness ==
    /\ last.op = "get" /\ last.param = "normalization_i"
    /\ via[268] = "i" /\ via[272] = "normalization_inputoffset"
    /\ last.result = 8192 * Sub
    /\ reg[272] # 0 /\ reg[264] # 0

====
